---- MODULE Spec2Model ----
(***************************************************************************)
(* A model of the PantryFlow food tracker (src/server.js) over the MySQL   *)
(* schema of src/unnamed/part_000: the item store, the reminders, the      *)
(* price_history ledger and the uploaded image files, with the request     *)
(* handlers and the reminder sweep split at the awaits where they can      *)
(* interleave.                                                             *)
(***************************************************************************)
EXTENDS Integers, Sequences, FiniteSets, TLC

(***************************************************************************)
(* Bounds of the model.                                                    *)
(***************************************************************************)
NProcs == 2          \* handlers / timer sweeps in flight at once
MaxItems == 2        \* item ids handed out
MaxReminders == 3    \* reminder ids handed out
MaxLedger == 3       \* price_history rows
MaxUploads == 2      \* files multer stores
TicksPerDay == 2     \* clock resolution: instants per calendar day

Procs == 1..NProcs

\* SQL NULL / JS null.
NULL == "<NULL>"

(***************************************************************************)
(* Calendar.  A date is the number of days since 2025-01-01; the years     *)
(* 2025..2027 are covered (none is a leap year).  An instant is            *)
(* day * TicksPerDay + tick-of-day.                                        *)
(***************************************************************************)
MonthLen == <<31, 28, 31, 30, 31, 30, 31, 31, 30, 31, 30, 31>>

RECURSIVE DaysBefore(_)
DaysBefore(m) == IF m <= 1 THEN 0 ELSE DaysBefore(m - 1) + MonthLen[m - 1]

\* First day of month m of year y, where m may run outside 1..12.
FirstOfMonth(y, m) ==
    LET yy == y + ((m - 1) \div 12)
        mm == ((m - 1) % 12) + 1
    IN  (yy - 2025) * 365 + DaysBefore(mm)

MkDate(y, m, d) == FirstOfMonth(y, m) + d - 1

YearOf(date) == 2025 + (date \div 365)
MonthOf(date) ==
    CHOOSE m \in 1..12 :
        /\ DaysBefore(m) <= date % 365
        /\ date % 365 < DaysBefore(m) + MonthLen[m]
DayOfMonth(date) == (date % 365) - DaysBefore(MonthOf(date)) + 1

DateOf(ts) == ts \div TicksPerDay
TickOf(ts) == ts % TicksPerDay
Instant(date, tick) == date * TicksPerDay + tick

\* JS Date.prototype.setMonth(getMonth() - 1): the day of the month is kept
\* and overflows into the following month when the target month is shorter.
SetMonthBack(ts) ==
    LET d == DateOf(ts)
    IN  Instant(FirstOfMonth(YearOf(d), MonthOf(d) - 1) + DayOfMonth(d) - 1,
                TickOf(ts))

\* MySQL DATE_SUB(date, INTERVAL n MONTH): the day of the month is clamped to
\* the last day of the target month.
DateSubMonths(date, n) ==
    LET y  == YearOf(date)
        m  == MonthOf(date) - n
        mm == ((m - 1) % 12) + 1
        dom == IF DayOfMonth(date) > MonthLen[mm] THEN MonthLen[mm]
               ELSE DayOfMonth(date)
    IN  FirstOfMonth(y, m) + dom - 1

DateSubDays(date, n) == date - n

\* MySQL DATEDIFF(a, b).
DATEDIFF(a, b) == a - b

\* Math.ceil(a / b) for b > 0.
Ceil(a, b) == -((-a) \div b)

(***************************************************************************)
(* Inputs.                                                                 *)
(***************************************************************************)
\* The instants the clock passes through.
ClockPoints ==
    << Instant(MkDate(2026, 2, 28), 1),
       Instant(MkDate(2026, 3, 3), 0),
       Instant(MkDate(2026, 3, 28), 1),
       Instant(MkDate(2026, 3, 31), 1) >>

\* A date field left out of the form.
NoDate == -1

\* Request bodies of POST /api/items and PUT /api/items/:id.
Body(name, brand, purchase_date, best_by_date, price) ==
    [name |-> name, brand |-> brand, location |-> "Fridge",
     purchase_date |-> purchase_date, best_by_date |-> best_by_date,
     price |-> price]

\* Bodies for the reminder engine at the first clock point: best by in three
\* days and today, one of them with a price to log.
SweepInputs ==
    { Body("milk", "acme", MkDate(2026, 2, 20), MkDate(2026, 3, 3), 5),
      Body("rice", "", MkDate(2026, 2, 20), MkDate(2026, 2, 28), 0) }

\* Bodies for the reminder engine as time passes: best by three and four days
\* after the first clock point.
ClockInputs ==
    { Body("milk", "", MkDate(2026, 2, 20), MkDate(2026, 3, 3), 0),
      Body("rice", "", MkDate(2026, 2, 20), MkDate(2026, 3, 4), 0) }

\* Bodies for the item routes: a complete form and one without a name.
RequestInputs ==
    { Body("milk", "acme", MkDate(2026, 2, 20), MkDate(2026, 3, 3), 5),
      Body("", "acme", MkDate(2026, 2, 20), MkDate(2026, 3, 3), 5) }

\* Bodies for the ledger: the same name and day at two prices, without and
\* with a brand, and prices that are not logged.  Nothing expires soon.
LedgerInputs ==
    { Body("milk", "", MkDate(2026, 2, 20), MkDate(2026, 3, 4), 5),
      Body("milk", "", MkDate(2026, 2, 20), MkDate(2026, 3, 4), 7),
      Body("milk", "acme", MkDate(2026, 2, 20), MkDate(2026, 3, 4), 5),
      Body("milk", "acme", MkDate(2026, 2, 20), MkDate(2026, 3, 4), 7),
      Body("milk", "acme", MkDate(2026, 2, 21), MkDate(2026, 3, 4), 0),
      Body("milk", "", MkDate(2026, 2, 20), MkDate(2026, 3, 4), -5) }

ItemIds == 1..MaxItems
ReminderIds == 1..MaxReminders

DELETE_FLAG == "DELETE_FLAG"
FileName(n) == "image-" \o ToString(n)

VARIABLES
    clock,           \* index into ClockPoints: the wall clock
    items,           \* table items: id -> row
    nextItemId,      \* AUTO_INCREMENT of items
    reminders,       \* table reminders: set of rows
    nextReminderId,  \* AUTO_INCREMENT of reminders
    price_history,   \* table price_history: set of rows
    files,           \* files in UPLOADS_DIR
    nextUpload,      \* uploads multer has named so far
    procs,           \* handlers and sweeps in flight
    response,        \* the last response sent / sweep returned
    solo             \* the proc whose sweep has run with nothing else since it began

vars == <<clock, items, nextItemId, reminders, nextReminderId, price_history,
          files, nextUpload, procs, response, solo>>

Now == ClockPoints[clock]
CURDATE == DateOf(Now)

NoTasks == [i \in {} |-> NULL]
NoReq == [name |-> "", brand |-> NULL, price |-> 0, purchase_date |-> NoDate]

IdleProc ==
    [pc |-> "idle", kind |-> "none", req |-> NoReq, affectedRows |-> 0,
     upload |-> NULL, ONE_MONTH_AGO |-> 0, tasks |-> NoTasks]

NoResponse ==
    [op |-> "none", status |-> 0, affectedRows |-> 0, upload |-> NULL,
     swept |-> FALSE, alone |-> FALSE]

Init ==
    /\ clock = 1
    /\ items = [i \in {} |-> NULL]
    /\ nextItemId = 1
    /\ reminders = {}
    /\ nextReminderId = 1
    /\ price_history = {}
    /\ files = {}
    /\ nextUpload = 1
    /\ procs = [p \in Procs |-> IdleProc]
    /\ response = NoResponse
    /\ solo = 0

(***************************************************************************)
(* The reminder sweep: checkExpirationAndGenerateReminders.                *)
(***************************************************************************)
DAYS_THRESHOLD == 3

\* DELETE FROM reminders WHERE is_closed = TRUE AND created_at < ?
PurgeClosed(rems, cutoff) ==
    {r \in rems : ~(r.is_closed /\ r.created_at < cutoff)}

\* SELECT ... FROM items WHERE DATEDIFF(best_by_date, CURDATE()) <= ?
ExpiringItems(its, today) ==
    {i \in DOMAIN its : DATEDIFF(its[i].best_by_date, today) <= DAYS_THRESHOLD}

\* diffDays of the map callback: best_by_date is midnight of its day.
DiffDays(best_by_date, ts) ==
    Ceil(Instant(best_by_date, 0) - ts, TicksPerDay)

\* The message text, as the fields that make it up.
ReminderMessage(item, ts) ==
    LET diffDays == DiffDays(item.best_by_date, ts)
    IN  IF diffDays < 0
        THEN [kind |-> "past", name |-> item.name, arg |-> item.best_by_date]
        ELSE IF diffDays = 0
        THEN [kind |-> "today", name |-> item.name, arg |-> 0]
        ELSE [kind |-> "in", name |-> item.name, arg |-> diffDays]

\* SELECT id FROM reminders WHERE item_id = ? AND message = ? AND is_closed = FALSE
ExistingReminders(rems, item_id, message) ==
    {r \in rems : r.item_id = item_id /\ r.message = message /\ ~r.is_closed}

\* INSERT INTO reminders (item_id, item_name, message): is_closed and
\* created_at take their column defaults.
NewReminder(id, item_id, item_name, message, ts) ==
    [id |-> id, item_id |-> item_id, item_name |-> item_name,
     message |-> message, is_closed |-> FALSE, created_at |-> ts]

Pending(tasks) == {i \in DOMAIN tasks : tasks[i].st \in {"check", "insert"}}
Failed(tasks) == {i \in DOMAIN tasks : tasks[i].st = "fail"}

\* A handler that let a failure of its sweep reach its catch block.
StatusAfterSweepRaised(kind, failed) ==
    IF failed /\ kind # "timer" THEN 500
    ELSE IF kind = "create" THEN 201 ELSE IF kind = "update" THEN 200 ELSE 0

\* The status a handler answers with once its sweep has returned; the sweep
\* catches its own errors (line 135), so failed plays no part.
StatusAfterSweep(kind, failed) ==
    IF kind = "create" THEN 201 ELSE IF kind = "update" THEN 200 ELSE 0

Others(p) == Procs \ {p}
Keep(p) == IF solo = p THEN p ELSE 0

\* The sweep is entered: ONE_MONTH_AGO is computed before the first await.
EnterSweep(p, rec) ==
    /\ procs' = [procs EXCEPT ![p] =
                    [rec EXCEPT !.pc = "purge", !.req = NoReq,
                                !.ONE_MONTH_AGO = SetMonthBack(Now)]]
    /\ solo' = IF \A q \in Others(p) : procs[q].pc = "idle" THEN p ELSE 0

\* The sweep returns to its caller: a handler answers, a timer tick ends.
\* Callbacks still awaiting the store run on.
ReturnFromSweep(p, rec, failed) ==
    /\ procs' = [procs EXCEPT ![p] =
                    IF Pending(rec.tasks) = {} THEN IdleProc
                    ELSE [IdleProc EXCEPT
                            !.pc = "drain",
                            !.tasks = [i \in Pending(rec.tasks) |-> rec.tasks[i]]]]
    /\ response' = [op |-> rec.kind,
                    status |-> StatusAfterSweep(rec.kind, failed),
                    affectedRows |-> rec.affectedRows,
                    upload |-> rec.upload,
                    swept |-> ~failed,
                    alone |-> solo = p]
    /\ solo' = 0

\* A callback settled: Promise.all resolves when all have, rejects on the first
\* failure.
AfterTask(p, rec) ==
    IF rec.pc = "gather"
    THEN IF Failed(rec.tasks) # {} THEN ReturnFromSweep(p, rec, TRUE)
         ELSE IF Pending(rec.tasks) = {} THEN ReturnFromSweep(p, rec, FALSE)
         ELSE /\ procs' = [procs EXCEPT ![p] = rec]
              /\ solo' = Keep(p)
              /\ response' = NoResponse
    ELSE /\ procs' = [procs EXCEPT ![p] =
                        IF Pending(rec.tasks) = {} THEN IdleProc
                        ELSE [rec EXCEPT !.tasks =
                                [i \in Pending(rec.tasks) |-> rec.tasks[i]]]]
         /\ solo' = Keep(p)
         /\ response' = NoResponse

\* setInterval(checkExpirationAndGenerateReminders, ...), and the sweep at start.
TimerSweep(p) ==
    /\ procs[p].pc = "idle"
    /\ EnterSweep(p, [IdleProc EXCEPT !.kind = "timer"])
    /\ response' = NoResponse
    /\ UNCHANGED <<clock, items, nextItemId, reminders, nextReminderId,
                   price_history, files, nextUpload>>

\* Step 1 of the sweep (line 97).
SweepPurge(p, ok) ==
    /\ procs[p].pc = "purge"
    /\ IF ok
       THEN /\ reminders' = PurgeClosed(reminders, procs[p].ONE_MONTH_AGO)
            /\ procs' = [procs EXCEPT ![p].pc = "scan"]
            /\ solo' = Keep(p)
            /\ response' = NoResponse
       ELSE /\ ReturnFromSweep(p, procs[p], TRUE)
            /\ UNCHANGED reminders
    /\ UNCHANGED <<clock, items, nextItemId, nextReminderId, price_history,
                   files, nextUpload>>

\* Step 2 of the sweep (lines 100-116): the scan, and each callback up to its
\* first await.
SweepScan(p, ok) ==
    /\ procs[p].pc = "scan"
    /\ IF ok
       THEN LET expiringItems == ExpiringItems(items, CURDATE)
                rec == [procs[p] EXCEPT
                          !.pc = "gather",
                          !.tasks = [i \in expiringItems |->
                                       [item_name |-> items[i].name,
                                        message |-> ReminderMessage(items[i], Now),
                                        st |-> "check"]]]
            IN  AfterTask(p, rec)
       ELSE ReturnFromSweep(p, procs[p], TRUE)
    /\ UNCHANGED <<clock, items, nextItemId, reminders, nextReminderId,
                   price_history, files, nextUpload>>

\* The existence check of one callback (lines 119-124).
TaskCheck(p, i, ok) ==
    /\ i \in DOMAIN procs[p].tasks
    /\ procs[p].tasks[i].st = "check"
    /\ LET t == procs[p].tasks[i]
           st == IF ~ok THEN "fail"
                 ELSE IF ExistingReminders(reminders, i, t.message) = {}
                 THEN "insert" ELSE "done"
       IN  AfterTask(p, [procs[p] EXCEPT !.tasks[i].st = st])
    /\ UNCHANGED <<clock, items, nextItemId, reminders, nextReminderId,
                   price_history, files, nextUpload>>

\* The insert of one callback (lines 126-129); the foreign key of
\* reminders.item_id refuses an item that is gone.
TaskInsert(p, i, ok) ==
    /\ i \in DOMAIN procs[p].tasks
    /\ procs[p].tasks[i].st = "insert"
    /\ LET t == procs[p].tasks[i]
       IN  IF ok /\ i \in DOMAIN items
           THEN /\ nextReminderId <= MaxReminders
                /\ reminders' = reminders \cup
                      {NewReminder(nextReminderId, i, t.item_name, t.message, Now)}
                /\ nextReminderId' = nextReminderId + 1
                /\ AfterTask(p, [procs[p] EXCEPT !.tasks[i].st = "done"])
           ELSE /\ UNCHANGED <<reminders, nextReminderId>>
                /\ AfterTask(p, [procs[p] EXCEPT !.tasks[i].st = "fail"])
    /\ UNCHANGED <<clock, items, nextItemId, price_history, files, nextUpload>>

\* Time passes.
Tick ==
    /\ clock < Len(ClockPoints)
    /\ clock' = clock + 1
    /\ solo' = 0
    /\ response' = NoResponse
    /\ UNCHANGED <<items, nextItemId, reminders, nextReminderId, price_history,
                   files, nextUpload, procs>>


(***************************************************************************)
(* The price-history ledger: logPriceHistory.                              *)
(***************************************************************************)
\* The rows the UNIQUE KEY (item_name, item_brand, recorded_at) holds equal to
\* a new row: a unique index never holds two NULLs equal, so a row without
\* a brand collides with nothing.
DuplicateKey(ph, name, brand, day) ==
    {r \in ph : /\ r.item_name = name
                /\ brand # NULL /\ r.item_brand = brand
                /\ r.recorded_at = day}

\* INSERT ... ON DUPLICATE KEY UPDATE price = VALUES(price)
UpsertPrice(ph, name, brand, price, day) ==
    IF DuplicateKey(ph, name, brand, day) # {}
    THEN {IF r \in DuplicateKey(ph, name, brand, day)
          THEN [r EXCEPT !.price = price] ELSE r : r \in ph}
    ELSE ph \cup {[id |-> Cardinality(ph) + 1, item_name |-> name,
                   item_brand |-> brand, price |-> price, recorded_at |-> day]}

\* (brand === undefined || brand === '') ? null : brand
DbBrand(brand) == IF brand = "" THEN NULL ELSE brand

\* The guard of line 144.
Logged(price) == ~(price <= 0)

(***************************************************************************)
(* The item routes.                                                        *)
(***************************************************************************)
\* !name || !location || !purchase_date || !best_by_date
MissingRequired(in) ==
    \/ in.name = ""
    \/ in.location = ""
    \/ in.purchase_date = NoDate
    \/ in.best_by_date = NoDate

\* image_path as a condition: NULL and '' are falsy.
Truthy(path) == path # NULL /\ path # ""

\* fs.unlink: the file is gone afterwards (unlinking a missing file throws).
Unlink(fs, path) == fs \ {path}

Answer(op, status, affectedRows, upload) ==
    [op |-> op, status |-> status, affectedRows |-> affectedRows,
     upload |-> upload, swept |-> FALSE, alone |-> FALSE]

\* Rows the ledger may still take, counting the handlers about to log.
LedgerRoom ==
    Cardinality(price_history)
      + Cardinality({q \in Procs : procs[q].pc = "log"}) < MaxLedger

\* What the create handler does with the uploaded file when validation fails
\* (line 199).
CreateInvalidFiles(stored, upload) ==
    IF upload # NULL THEN Unlink(stored, upload) ELSE stored

\* What the update handler does with the uploaded file when validation fails
\* (line 266): nothing.
UpdateInvalidFiles(stored, upload) == stored

\* The catch blocks of both handlers (lines 223, 290).
CatchFiles(stored, upload) ==
    IF upload # NULL THEN Unlink(stored, upload) ELSE stored

\* A handler that unlinked the old file before awaiting its UPDATE.
OldFileBeforeWrite(stored, fileToDelete, written) ==
    IF fileToDelete # NULL THEN Unlink(stored, fileToDelete) ELSE stored

\* if (fileToDelete) await fs.unlink(fileToDelete) (lines 275-277): the
\* statement follows the awaited UPDATE of line 269, so it runs only when the
\* UPDATE did not throw (written).
OldFileAfterWrite(stored, fileToDelete, written) ==
    IF written /\ fileToDelete # NULL THEN Unlink(stored, fileToDelete)
    ELSE stored

\* POST /api/items, up to the item's INSERT (lines 185-206); ok is whether
\* the store carries the INSERT out.
CreateItem(p, in, withFile, ok) ==
    /\ procs[p].pc = "idle"
    /\ withFile => nextUpload <= MaxUploads
    /\ LET upload == IF withFile THEN FileName(nextUpload) ELSE NULL
           stored == IF withFile THEN files \cup {upload} ELSE files
       IN  /\ nextUpload' = IF withFile THEN nextUpload + 1 ELSE nextUpload
           /\ IF MissingRequired(in)
              THEN /\ files' = CreateInvalidFiles(stored, upload)
                   /\ response' = Answer("create", 400, 0, upload)
                   /\ UNCHANGED <<items, nextItemId, procs>>
              ELSE IF ok
              THEN /\ nextItemId <= MaxItems
                   /\ LedgerRoom
                   /\ items' = [i \in DOMAIN items \cup {nextItemId} |->
                                  IF i = nextItemId
                                  THEN [name |-> in.name,
                                        brand |-> DbBrand(in.brand),
                                        location |-> in.location,
                                        purchase_date |-> in.purchase_date,
                                        best_by_date |-> in.best_by_date,
                                        price |-> in.price,
                                        image_path |-> upload]
                                  ELSE items[i]]
                   /\ nextItemId' = nextItemId + 1
                   /\ files' = stored
                   /\ procs' = [procs EXCEPT ![p] =
                                  [IdleProc EXCEPT
                                     !.pc = "log", !.kind = "create",
                                     !.req = [name |-> in.name,
                                              brand |-> DbBrand(in.brand),
                                              price |-> in.price,
                                              purchase_date |-> in.purchase_date],
                                     !.affectedRows = 1, !.upload = upload]]
                   /\ response' = NoResponse
              ELSE /\ files' = CatchFiles(stored, upload)
                   /\ response' = Answer("create", 500, 0, upload)
                   /\ UNCHANGED <<items, nextItemId, procs>>
    /\ solo' = 0
    /\ UNCHANGED <<clock, reminders, nextReminderId, price_history>>

\* PUT /api/items/:id, up to the unlink of the old file (lines 230-277).
\* cur is the form's current_image_path; ok is whether the store carries out
\* the statements of the handler (the SELECT of line 257, the UPDATE).
UpdateItem(p, id, in, withFile, cur, ok) ==
    /\ procs[p].pc = "idle"
    /\ withFile => nextUpload <= MaxUploads
    /\ LET upload == IF withFile THEN FileName(nextUpload) ELSE NULL
           stored == IF withFile THEN files \cup {upload} ELSE files
           selects == ~withFile /\ cur = DELETE_FLAG
           fileToDelete ==
               IF withFile
               THEN IF cur # "" /\ cur # DELETE_FLAG THEN cur ELSE NULL
               ELSE IF selects /\ id \in DOMAIN items
                       /\ Truthy(items[id].image_path)
               THEN items[id].image_path ELSE NULL
           newImagePath ==
               IF withFile THEN upload
               ELSE IF cur = DELETE_FLAG THEN NULL ELSE cur
           affectedRows == IF id \in DOMAIN items THEN 1 ELSE 0
       IN  /\ nextUpload' = IF withFile THEN nextUpload + 1 ELSE nextUpload
           /\ IF selects /\ ~ok
              THEN /\ files' = CatchFiles(stored, upload)
                   /\ response' = Answer("update", 500, 0, upload)
                   /\ UNCHANGED <<items, procs>>
              ELSE IF MissingRequired(in)
              THEN /\ files' = UpdateInvalidFiles(stored, upload)
                   /\ response' = Answer("update", 400, 0, upload)
                   /\ UNCHANGED <<items, procs>>
              ELSE IF ok
              THEN /\ LedgerRoom
                   /\ items' = [i \in DOMAIN items |->
                                  IF i = id
                                  THEN [name |-> in.name,
                                        brand |-> DbBrand(in.brand),
                                        location |-> in.location,
                                        purchase_date |-> in.purchase_date,
                                        best_by_date |-> in.best_by_date,
                                        price |-> in.price,
                                        image_path |-> newImagePath]
                                  ELSE items[i]]
                   /\ files' = OldFileAfterWrite(stored, fileToDelete, TRUE)
                   /\ procs' = [procs EXCEPT ![p] =
                                  [IdleProc EXCEPT
                                     !.pc = "log", !.kind = "update",
                                     !.req = [name |-> in.name,
                                              brand |-> DbBrand(in.brand),
                                              price |-> in.price,
                                              purchase_date |-> in.purchase_date],
                                     !.affectedRows = affectedRows,
                                     !.upload = upload]]
                   /\ response' = NoResponse
              ELSE /\ files' = CatchFiles(
                                 OldFileAfterWrite(stored, fileToDelete, FALSE),
                                 upload)
                   /\ response' = Answer("update", 500, 0, upload)
                   /\ UNCHANGED <<items, procs>>
    /\ solo' = 0
    /\ UNCHANGED <<clock, nextItemId, reminders, nextReminderId, price_history>>

\* await logPriceHistory(...), then the call of the sweep (lines 209-212,
\* 280-283).
LogPrice(p, ok) ==
    /\ procs[p].pc = "log"
    /\ LET r == procs[p].req
       IN  IF Logged(r.price) /\ ok
           THEN price_history' = UpsertPrice(price_history, r.name,
                                             DbBrand(r.brand), r.price,
                                             r.purchase_date)
           ELSE UNCHANGED price_history
    /\ EnterSweep(p, procs[p])
    /\ response' = NoResponse
    /\ UNCHANGED <<clock, items, nextItemId, reminders, nextReminderId, files,
                   nextUpload>>

\* A foreign key without ON DELETE CASCADE that were not enforced.
CascadeDeleteNone(rems, item_id) == rems

\* ON DELETE CASCADE of reminders.item_id.
CascadeDelete(rems, item_id) == {r \in rems : r.item_id # item_id}

\* DELETE /api/items/:id (lines 297-322).
DeleteItem(id, ok) ==
    /\ IF ~ok
       THEN /\ response' = Answer("deleteItem", 500, 0, NULL)
            /\ UNCHANGED <<items, reminders, files>>
       ELSE IF id \notin DOMAIN items
       THEN /\ response' = Answer("deleteItem", 404, 0, NULL)
            /\ UNCHANGED <<items, reminders, files>>
       ELSE /\ items' = [i \in DOMAIN items \ {id} |-> items[i]]
            /\ reminders' = CascadeDelete(reminders, id)
            /\ files' = IF Truthy(items[id].image_path)
                        THEN Unlink(files, items[id].image_path) ELSE files
            /\ response' = Answer("deleteItem", 200, 1, NULL)
    /\ solo' = 0
    /\ UNCHANGED <<clock, nextItemId, nextReminderId, price_history,
                   nextUpload, procs>>

(***************************************************************************)
(* The reminder routes.                                                    *)
(***************************************************************************)
\* A close route that flipped the flag instead of setting it.
ToggleClosed(r) == [r EXCEPT !.is_closed = ~r.is_closed]

\* UPDATE reminders SET is_closed = TRUE (line 343), on a row it matches.
SetClosed(r) == [r EXCEPT !.is_closed = TRUE]

\* PUT /api/reminders/close/:id (lines 340-352).
CloseReminder(id, ok) ==
    /\ IF ~ok
       THEN /\ response' = Answer("closeReminder", 500, 0, NULL)
            /\ UNCHANGED reminders
       ELSE IF ~\E r \in reminders : r.id = id
       THEN /\ response' = Answer("closeReminder", 404, 0, NULL)
            /\ UNCHANGED reminders
       ELSE /\ reminders' = {IF r.id = id THEN SetClosed(r)
                             ELSE r : r \in reminders}
            /\ response' = Answer("closeReminder", 200, 1, NULL)
    /\ solo' = 0
    /\ UNCHANGED <<clock, items, nextItemId, nextReminderId, price_history,
                   files, nextUpload, procs>>

\* DELETE /api/reminders/active/:id (lines 355-367).
DeleteActiveReminder(id, ok) ==
    /\ IF ~ok
       THEN /\ response' = Answer("deleteActive", 500, 0, NULL)
            /\ UNCHANGED reminders
       ELSE IF ~\E r \in reminders : r.id = id /\ ~r.is_closed
       THEN /\ response' = Answer("deleteActive", 404, 0, NULL)
            /\ UNCHANGED reminders
       ELSE /\ reminders' = {r \in reminders : ~(r.id = id /\ ~r.is_closed)}
            /\ response' = Answer("deleteActive", 200, 1, NULL)
    /\ solo' = 0
    /\ UNCHANGED <<clock, items, nextItemId, nextReminderId, price_history,
                   files, nextUpload, procs>>

\* DELETE /api/reminders/closed/clear (lines 370-378).
ClearClosed(ok) ==
    /\ IF ~ok
       THEN /\ response' = Answer("clearClosed", 500, 0, NULL)
            /\ UNCHANGED reminders
       ELSE /\ reminders' = {r \in reminders : ~r.is_closed}
            /\ response' = Answer("clearClosed", 200, 0, NULL)
    /\ solo' = 0
    /\ UNCHANGED <<clock, items, nextItemId, nextReminderId, price_history,
                   files, nextUpload, procs>>

\* The values a form sends as current_image_path.
CurrentPaths == {"", DELETE_FLAG} \cup files

\* The reminder engine under concurrent requests and the hourly timer, at one
\* instant, on a store that carries out every statement.
Next ==
    \/ \E p \in Procs : TimerSweep(p)
    \/ \E p \in Procs : SweepPurge(p, TRUE)
    \/ \E p \in Procs : SweepScan(p, TRUE)
    \/ \E p \in Procs, i \in ItemIds : TaskCheck(p, i, TRUE)
    \/ \E p \in Procs, i \in ItemIds : TaskInsert(p, i, TRUE)
    \/ \E p \in Procs, in \in SweepInputs : CreateItem(p, in, FALSE, TRUE)
    \/ \E p \in Procs : LogPrice(p, TRUE)
    \/ \E id \in ItemIds : DeleteItem(id, TRUE)
    \/ \E id \in ReminderIds : CloseReminder(id, TRUE)

Spec == Init /\ [][Next]_vars

\* The reminder engine as time passes, one handler or sweep at a time.
NextClock ==
    \/ Tick
    \/ TimerSweep(1)
    \/ SweepPurge(1, TRUE)
    \/ SweepScan(1, TRUE)
    \/ \E i \in ItemIds : TaskCheck(1, i, TRUE)
    \/ \E i \in ItemIds : TaskInsert(1, i, TRUE)
    \/ \E in \in ClockInputs : CreateItem(1, in, FALSE, TRUE)
    \/ LogPrice(1, TRUE)
    \/ \E id \in ReminderIds : CloseReminder(id, TRUE)
    \/ \E id \in ReminderIds : DeleteActiveReminder(id, TRUE)
    \/ ClearClosed(TRUE)

SpecClock == Init /\ [][NextClock]_vars

\* The item routes, one request at a time, with uploads, on a store that may
\* fail any statement.
NextRequests ==
    \/ \E in \in RequestInputs, withFile, ok \in BOOLEAN :
          CreateItem(1, in, withFile, ok)
    \/ \E id \in ItemIds, in \in RequestInputs, withFile, ok \in BOOLEAN,
          cur \in CurrentPaths : UpdateItem(1, id, in, withFile, cur, ok)
    \/ \E ok \in BOOLEAN : LogPrice(1, ok)
    \/ \E ok \in BOOLEAN : SweepPurge(1, ok)
    \/ \E ok \in BOOLEAN : SweepScan(1, ok)
    \/ \E i \in ItemIds, ok \in BOOLEAN : TaskCheck(1, i, ok)
    \/ \E i \in ItemIds, ok \in BOOLEAN : TaskInsert(1, i, ok)
    \/ \E id \in ItemIds, ok \in BOOLEAN : DeleteItem(id, ok)

SpecRequests == Init /\ [][NextRequests]_vars

\* Concurrent creates and updates that log prices; the store may fail the
\* ledger's statement.
NextLedger ==
    \/ \E p \in Procs, in \in LedgerInputs : CreateItem(p, in, FALSE, TRUE)
    \/ \E p \in Procs, id \in ItemIds, in \in LedgerInputs :
          UpdateItem(p, id, in, FALSE, "", TRUE)
    \/ \E p \in Procs, ok \in BOOLEAN : LogPrice(p, ok)
    \/ \E p \in Procs : SweepPurge(p, TRUE)
    \/ \E p \in Procs : SweepScan(p, TRUE)

SpecLedger == Init /\ [][NextLedger]_vars

\* The reminders of items that are edited (renamed, given other dates) while
\* reminders are made, closed, deleted and cleared; one handler at a time.
NextReminders ==
    \/ \E in \in SweepInputs : CreateItem(1, in, FALSE, TRUE)
    \/ \E id \in ItemIds, in \in SweepInputs :
          UpdateItem(1, id, in, FALSE, "", TRUE)
    \/ LogPrice(1, TRUE)
    \/ TimerSweep(1)
    \/ SweepPurge(1, TRUE)
    \/ SweepScan(1, TRUE)
    \/ \E i \in ItemIds : TaskCheck(1, i, TRUE)
    \/ \E i \in ItemIds : TaskInsert(1, i, TRUE)
    \/ \E id \in ReminderIds : CloseReminder(id, TRUE)
    \/ \E id \in ReminderIds : DeleteActiveReminder(id, TRUE)
    \/ ClearClosed(TRUE)

SpecReminders == Init /\ [][NextReminders]_vars

(***************************************************************************)
(* The read-only routes: GET /api/stats/spending and                       *)
(* GET /api/price-tracker/difference.                                      *)
(***************************************************************************)
RECURSIVE SumPrices(_)
SumPrices(rows) ==
    IF rows = {} THEN 0
    ELSE LET r == CHOOSE x \in rows : TRUE
         IN  r.price + SumPrices(rows \ {r})

\* The switch of lines 388-419: whether the period filters by date, and the
\* first day its WHERE clause lets through.
Filtered(period) == period \in {"week", "month", "year"}
FilterFrom(period, today) ==
    IF period = "week" THEN DateSubDays(today, 7)
    ELSE IF period = "month" THEN DateSubMonths(today, 1)
    ELSE DateSubMonths(today, 12)

\* The rows of price_history the query of lines 424-428 sums.
SpendingRows(ph, period, today) ==
    IF Filtered(period)
    THEN {r \in ph : r.recorded_at >= FilterFrom(period, today)}
    ELSE ph

\* parseFloat(totalResults[0]?.totalSpent || 0): SUM over no rows is NULL.
TotalSpent(ph, period, today) ==
    IF SpendingRows(ph, period, today) = {} THEN 0
    ELSE SumPrices(SpendingRows(ph, period, today))

\* The location breakdown of lines 434-450, over the items on hand.
LocationSpent(its, location, period, today) ==
    LET held == {[id |-> i, price |-> its[i].price] :
                   i \in {j \in DOMAIN its :
                            /\ its[j].price > 0
                            /\ its[j].location = location
                            /\ (Filtered(period) =>
                                  its[j].purchase_date >= FilterFrom(period, today))}}
    IN  SumPrices(held)

\* SELECT YEAR(recorded_at) AS year, SUM(price) ... GROUP BY year ORDER BY
\* year DESC, as a sequence of rows.
RECURSIVE AnnualSummary(_)
AnnualSummary(ph) ==
    IF ph = {} THEN << >>
    ELSE LET y == CHOOSE v \in {YearOf(r.recorded_at) : r \in ph} :
                      \A r \in ph : YearOf(r.recorded_at) <= v
             ofYear == {r \in ph : YearOf(r.recorded_at) = y}
         IN  <<[year |-> y, total_spent |-> SumPrices(ofYear)]>>
               \o AnnualSummary(ph \ ofYear)

\* GET /api/stats/spending (lines 383-468).
StatsSpending(period, ok) ==
    /\ response' =
         IF ~ok THEN [op |-> "stats", status |-> 500, period |-> period]
         ELSE IF period = "annual"
         THEN [op |-> "stats", status |-> 200, period |-> period,
               annualSummary |-> AnnualSummary(price_history)]
         ELSE [op |-> "stats", status |-> 200, period |-> period,
               totalSpent |-> TotalSpent(price_history, period, CURDATE),
               pantrySpent |-> LocationSpent(items, "Pantry", period, CURDATE),
               fridgeSpent |-> LocationSpent(items, "Fridge", period, CURDATE),
               freezerSpent |-> LocationSpent(items, "Freezer", period, CURDATE)]
    /\ solo' = 0
    /\ UNCHANGED <<clock, items, nextItemId, reminders, nextReminderId,
                   price_history, files, nextUpload, procs>>

\* The normalisation of lines 497-500 and 516.
QueryBrand(brandQuery) ==
    IF brandQuery = "null" \/ brandQuery = "" THEN NULL ELSE brandQuery

\* A lookup that compared brands with = instead of <=>: NULL = NULL is not
\* true, so a row without a brand is never found.
findClosestPriceEq(ph, name, brand, targetDate) ==
    LET found == {r \in ph : /\ r.item_name = name
                             /\ brand # NULL /\ r.item_brand = brand
                             /\ r.recorded_at <= targetDate}
    IN  {r \in found : \A o \in found : o.recorded_at <= r.recorded_at}

\* The rows findClosestPrice may return for a target date: WHERE item_name = ?
\* AND item_brand <=> ? AND recorded_at <= ? ORDER BY recorded_at DESC LIMIT 1.
\* Rows of the same day are in no order, so any of them may come first.
findClosestPrice(ph, name, brand, targetDate) ==
    LET found == {r \in ph : /\ r.item_name = name
                             /\ r.item_brand = brand
                             /\ r.recorded_at <= targetDate}
    IN  {r \in found : \A o \in found : o.recorded_at <= r.recorded_at}

\* GET /api/price-tracker/difference (lines 489-551).
PriceDifference(name, brandQuery, startDate, endDate, ok) ==
    /\ LET brand == QueryBrand(brandQuery)
           asked == [op |-> "difference", name |-> name, brandQuery |-> brandQuery,
                     askedStart |-> startDate, askedEnd |-> endDate]
           starts == findClosestPrice(price_history, name, brand, startDate)
           ends == findClosestPrice(price_history, name, brand, endDate)
       IN  IF name = "" \/ startDate = NoDate \/ endDate = NoDate
           THEN response' = asked @@ [status |-> 400]
           ELSE IF ~ok
           THEN response' = asked @@ [status |-> 500]
           ELSE IF starts = {}
           THEN response' = asked @@ [status |-> 404, boundary |-> "start"]
           ELSE IF ends = {}
           THEN response' = asked @@ [status |-> 404, boundary |-> "end"]
           ELSE \E priceStart \in starts, priceEnd \in ends :
                  response' = asked @@
                     [status |-> 200, brand |-> brand,
                      startDate |-> priceStart.recorded_at,
                      endDate |-> priceEnd.recorded_at,
                      startPrice |-> priceStart.price,
                      endPrice |-> priceEnd.price,
                      difference |-> priceEnd.price - priceStart.price]
    /\ solo' = 0
    /\ UNCHANGED <<clock, items, nextItemId, reminders, nextReminderId,
                   price_history, files, nextUpload, procs>>

\* Ledgers for the read-only routes: rows a year and more back, around the
\* week and month boundaries of the clock points, and ahead of them; two rows
\* without a brand share a name and a day.
QueryRows ==
    { [id |-> 1, item_name |-> "milk", item_brand |-> "acme", price |-> 10,
       recorded_at |-> MkDate(2025, 2, 1)],
      [id |-> 2, item_name |-> "milk", item_brand |-> "acme", price |-> 12,
       recorded_at |-> MkDate(2026, 2, 20)],
      [id |-> 3, item_name |-> "milk", item_brand |-> NULL, price |-> 5,
       recorded_at |-> MkDate(2026, 2, 21)],
      [id |-> 4, item_name |-> "milk", item_brand |-> NULL, price |-> 7,
       recorded_at |-> MkDate(2026, 2, 21)],
      [id |-> 5, item_name |-> "rice", item_brand |-> "acme", price |-> 3,
       recorded_at |-> MkDate(2026, 3, 28)],
      [id |-> 6, item_name |-> "milk", item_brand |-> "acme", price |-> 20,
       recorded_at |-> MkDate(2026, 4, 10)] }

Periods == {"week", "month", "year", "annual", "all", "", "decade"}
QueryNames == {"milk", ""}
QueryBrands == {"acme", "", "null"}
QueryDates == {MkDate(2025, 1, 15), MkDate(2025, 6, 1), MkDate(2026, 2, 25)}

InitQuery ==
    /\ clock \in 1..Len(ClockPoints)
    /\ items = [i \in {} |-> NULL]
    /\ nextItemId = 1
    /\ reminders = {}
    /\ nextReminderId = 1
    /\ price_history \in SUBSET QueryRows
    /\ files = {}
    /\ nextUpload = 1
    /\ procs = [p \in Procs |-> IdleProc]
    /\ response = NoResponse
    /\ solo = 0

NextQuery ==
    \/ \E period \in Periods, ok \in BOOLEAN : StatsSpending(period, ok)
    \/ \E name \in QueryNames, brandQuery \in QueryBrands,
          startDate, endDate \in QueryDates, ok \in BOOLEAN :
            PriceDifference(name, brandQuery, startDate, endDate, ok)

SpecQuery == InitQuery /\ [][NextQuery]_vars

(***************************************************************************)
(* Properties.                                                             *)
(***************************************************************************)

\* C1: the ledger holds at most one entry per (name, normalized brand, day),
\* also when the brand is absent and stored as NULL.
C1_OneEntryPerKey ==
    \A r1, r2 \in price_history :
        (/\ r1.item_name = r2.item_name
         /\ r1.item_brand = r2.item_brand
         /\ r1.recorded_at = r2.recorded_at) => r1 = r2

\* The message of an item's day-difference bucket: negative, zero, positive N.
BucketMessage(item, today) ==
    LET d == item.best_by_date - today
    IN  IF d < 0
        THEN [kind |-> "past", name |-> item.name, arg |-> item.best_by_date]
        ELSE IF d = 0 THEN [kind |-> "today", name |-> item.name, arg |-> 0]
        ELSE [kind |-> "in", name |-> item.name, arg |-> d]

OpenWithMessage(i, message) ==
    {r \in reminders : r.item_id = i /\ r.message = message /\ ~r.is_closed}

\* C2: right after a sweep that ran alone and without a store failure, every
\* item whose best-by date is at most 3 days after today has exactly one open
\* reminder carrying the message of its current bucket.
C2_SweepAlone ==
    (response.op \in {"timer", "create", "update"}
       /\ response.swept /\ response.alone) =>
        \A i \in DOMAIN items :
            items[i].best_by_date - CURDATE <= 3 =>
                Cardinality(OpenWithMessage(i, BucketMessage(items[i], CURDATE))) = 1

\* C3: however sweeps overlap, no item ends up with two open reminders that
\* have the same message.
C3_NoDuplicateOpen ==
    \A r1, r2 \in reminders :
        (/\ ~r1.is_closed /\ ~r2.is_closed
         /\ r1.item_id = r2.item_id
         /\ r1.message = r2.message) => r1 = r2

\* C4: a create or update request that carried an upload and answered without
\* writing the item (400, 500) has deleted the file it uploaded.
C4_UploadCleanedUp ==
    (/\ response.op \in {"create", "update"}
     /\ response.status \in {400, 500}
     /\ response.upload # NULL) => response.upload \notin files

\* C5: an operation that addresses an item or a reminder by id, and that is
\* neither refused as invalid nor failed by the store, answers 404 when no row
\* has that id.
C5_NotFound ==
    (/\ response.op \in {"update", "deleteItem", "closeReminder", "deleteActive"}
     /\ response.status \notin {400, 500}
     /\ response.affectedRows = 0) => response.status = 404

InFlight(rec) ==
    /\ rec.kind \in {"create", "update"}
    /\ rec.pc \in {"log", "purge", "scan", "gather"}

\* C6: a create or update handler whose item write was carried out answers
\* with success whatever became of the price logging and of the sweep, and
\* these leave the item store as written; an error is answered only by a step
\* that wrote no item.
C6_SecondaryFailuresSwallowed ==
    [][/\ \A p \in Procs :
         /\ (InFlight(procs[p]) /\ ~InFlight(procs'[p])) =>
                /\ response'.op = procs[p].kind
                /\ response'.status =
                      IF procs[p].kind = "create" THEN 201 ELSE 200
         /\ (InFlight(procs[p]) /\ procs'[p] # procs[p]) => items' = items
         /\ (procs[p].pc = "idle" /\ InFlight(procs'[p])
               /\ procs'[p].affectedRows = 1) =>
                \E i \in DOMAIN items' :
                    /\ items'[i].name = procs'[p].req.name
                    /\ items'[i].price = procs'[p].req.price
       /\ (procs' = procs /\ response'.op \in {"create", "update"}) =>
            /\ response'.status \in {400, 500}
            /\ items' = items
      ]_vars

\* C6's case: a create answered 201 although its price logging failed (the
\* ledger is still empty) and its sweep failed.
C6_Witness ==
    /\ response.op = "create"
    /\ response.status = 201
    /\ ~response.swept
    /\ price_history = {}
    /\ DOMAIN items # {}

\* C7: deleting an existing item removes every reminder that references it,
\* open or closed, and nothing else: the reminders of other items and every
\* price-history entry stay; no reminder is left referencing a missing item.
C7_DeleteCascades ==
    [][/\ \A r \in reminders' : r.item_id \in DOMAIN items'
       /\ \A id \in DOMAIN items \ DOMAIN items' :
            /\ reminders' = {r \in reminders : r.item_id # id}
            /\ price_history' = price_history
      ]_vars

\* C7's case: an item was deleted after three reminders had been created; the
\* one left belongs to the other item, and the ledger still holds its rows.
C7_Witness ==
    /\ response.op = "deleteItem"
    /\ response.status = 200
    /\ nextReminderId > MaxReminders
    /\ Cardinality(reminders) = 1
    /\ DOMAIN items # {}
    /\ price_history # {}

\* C8: for week, month and year, totalSpent is the sum over the ledger entries
\* whose day lies in the closed window [today - window, today]; for any other
\* period but annual it is the sum over all entries.
C8_WindowTotal ==
    (response.op = "stats" /\ response.status = 200
       /\ response.period # "annual") =>
        LET from == IF response.period = "week" THEN CURDATE - 7
                    ELSE IF response.period = "month"
                    THEN DateSubMonths(CURDATE, 1)
                    ELSE DateSubMonths(CURDATE, 12)
            rows == IF response.period \in {"week", "month", "year"}
                    THEN {r \in price_history :
                            from <= r.recorded_at /\ r.recorded_at <= CURDATE}
                    ELSE price_history
        IN  response.totalSpent = SumPrices(rows)

\* C9: each boundary resolves to a ledger entry of (name, brand) with the
\* latest day on or before the boundary date, '' and 'null' meaning no brand
\* and matching only entries without one; the answer carries those days, both
\* prices and difference = endPrice - startPrice; a boundary without such an
\* entry is answered not-found naming it, the start first; a single entry
\* before both dates gives difference 0.
C9_PriceDifference ==
    (response.op = "difference" /\ response.status \in {200, 404}) =>
        LET brand == IF response.brandQuery \in {"", "null"} THEN NULL
                     ELSE response.brandQuery
            OnOrBefore(d) == {r \in price_history :
                                /\ r.item_name = response.name
                                /\ r.item_brand = brand
                                /\ r.recorded_at <= d}
            Resolves(d, day, price) ==
                /\ \E r \in OnOrBefore(d) : r.recorded_at = day /\ r.price = price
                /\ \A r \in OnOrBefore(d) : r.recorded_at <= day
        IN  IF OnOrBefore(response.askedStart) = {}
            THEN response.status = 404 /\ response.boundary = "start"
            ELSE IF OnOrBefore(response.askedEnd) = {}
            THEN response.status = 404 /\ response.boundary = "end"
            ELSE /\ response.status = 200
                 /\ Resolves(response.askedStart, response.startDate,
                             response.startPrice)
                 /\ Resolves(response.askedEnd, response.endDate,
                             response.endPrice)
                 /\ response.difference = response.endPrice - response.startPrice
                 /\ Cardinality(OnOrBefore(response.askedStart)
                                  \cup OnOrBefore(response.askedEnd)) = 1
                      => response.difference = 0

\* C9's case: entries at 10 and then at 12, a start date between them and an
\* end date after both: 10, 12 and a difference of 2, with the recorded days.
C9_Witness ==
    /\ response.op = "difference"
    /\ response.status = 200
    /\ response.startDate < response.askedStart
    /\ response.startDate < response.endDate
    /\ response.endDate < response.askedEnd
    /\ response.startPrice = 10
    /\ response.endPrice = 12
    /\ response.difference = 2

\* One calendar month before an instant.
OneMonthBefore(ts) == Instant(DateSubMonths(DateOf(ts), 1), TickOf(ts))

\* C10: the purge of a sweep deletes exactly the closed reminders created
\* strictly earlier than one month before the sweep's current time (here: a
\* sweep whose purge runs at the instant it began).
C10_PurgeBoundary ==
    [][\A p \in Procs :
         (/\ procs[p].pc = "purge" /\ procs'[p].pc = "scan"
          /\ procs[p].ONE_MONTH_AGO = SetMonthBack(Now)) =>
            reminders' = {r \in reminders :
                            ~(r.is_closed /\ r.created_at < OneMonthBefore(Now))}
      ]_vars

\* C11: a file that an item delete or an item update removes from the uploads
\* (the file the item referenced, or the one the form named as current) goes
\* only in the step in which the DELETE or UPDATE was carried out; when that
\* statement fails (500), or is not reached (400), every file that existed
\* still exists and every item still references what it referenced.
C11_OldFileAfterWrite ==
    [][/\ (response'.op \in {"update", "deleteItem"}
             /\ response'.status \in {400, 500}) =>
            /\ items' = items
            /\ files \subseteq files'
       /\ (files \ files' # {}) =>
            \/ \E p \in Procs :
                 /\ procs[p].pc = "idle"
                 /\ procs'[p].pc = "log" /\ procs'[p].kind = "update"
            \/ /\ response'.op = "deleteItem" /\ response'.status = 200
               /\ \E id \in DOMAIN items \ DOMAIN items' :
                    files \ files' = {items[id].image_path}
      ]_vars

\* C11's case: an update that carried an upload failed in the store while an
\* item references a stored file: the upload is gone, the old file is not.
C11_Witness ==
    /\ response.op = "update"
    /\ response.status = 500
    /\ response.upload # NULL
    /\ response.upload \notin files
    /\ \E i \in DOMAIN items : items[i].image_path \in files

\* C12: a reminder that exists before and after a step keeps its item
\* reference, item name, message and creation time, and stays closed if it was
\* closed; a reminder that appears is new (a fresh id, open); ids stay unique.
C12_ReminderImmutable ==
    [][/\ \A r \in reminders, n \in reminders' :
            r.id = n.id =>
              /\ n.item_id = r.item_id
              /\ n.item_name = r.item_name
              /\ n.message = r.message
              /\ n.created_at = r.created_at
              /\ r.is_closed => n.is_closed
       /\ \A n \in reminders' :
            (~\E r \in reminders : r.id = n.id) =>
                n.id >= nextReminderId /\ ~n.is_closed
       /\ \A n1, n2 \in reminders' : n1.id = n2.id => n1 = n2
      ]_vars

\* C12's case: an item was renamed and given today as best-by date after its
\* reminder was created, and the reminder was closed: it still carries the
\* name and the "in N days" message it was created with.
C12_Witness ==
    \E r \in reminders :
        /\ r.is_closed
        /\ r.item_id \in DOMAIN items
        /\ items[r.item_id].name # r.item_name
        /\ r.message.name = r.item_name
        /\ r.message.kind = "in"
        /\ items[r.item_id].best_by_date = CURDATE

\* C13: when the existence check or the insert of one eligible item fails, the
\* reminders of the other eligible items exist once the sweep has returned, as
\* after a sequential run that isolates each insert: no callback of a sweep
\* inserts a reminder after that sweep has returned to its caller.
C13_InsertsBeforeReturn ==
    [][\A p \in Procs :
         (procs[p].pc = "drain" /\ procs'[p] # procs[p]) =>
            reminders' \subseteq reminders
      ]_vars

====
